---- MODULE Spec2Model ----
(***************************************************************************)
(* Client-side interview proctoring of talentis.ai.                        *)
(*                                                                         *)
(* Three components of the repository implement the proctored session:     *)
(*   "recorder" : frontend/src/components/InterviewRecorder.jsx            *)
(*   "legacy"   : unnamed/part_000 (earlier InterviewRecorder)             *)
(*   "room"     : unnamed/part_005 (InterviewRoom)                         *)
(* The variable impl selects the component a behaviour is about.           *)
(*                                                                         *)
(* Async functions are split at their awaits: one action runs the handler  *)
(* up to its first await, one action per await runs the continuation up to *)
(* the next await.  Several invocations of the same handler may be in      *)
(* flight, as the code has no re-entrancy guard.                           *)
(***************************************************************************)
EXTENDS Integers, Sequences, FiniteSets, TLC

\* ---- bounds of the model ----
MaxStarts == 2      \* invocations of startInterview
MaxStops == 2       \* invocations of stopInterview / handleSubmitInterview
MaxChunks == 2      \* chunk uploads per attempt and kind
MaxCount == 2       \* cap of the blur and paste counters
MaxLog == 3         \* cap of the recorder's violation log
MaxSteps == 16      \* steps of the clock
MaxFaces == 2       \* largest face count a detector reports
MaxFlags == 2       \* face-flag posts per attempt
MaxQuestions == 2   \* longest question list handed to InterviewRoom
MaxErrors == 1      \* errors caught per detection interval
MaxUtterances == 2  \* utterances whose callbacks are not all delivered
MaxLines == 6       \* non-empty lines of a simulation prompt

Impls == {"recorder", "legacy", "room"}

VARIABLES
  impl,                  \* which component
  hasFaceDetector,       \* 'FaceDetector' in window (room: modelsLoaded)
  isLoading,             \* room: isLoading
  gen,                   \* render generation whose closures the buttons call
  recording,             \* recording / isRecording
  attemptId,             \* useState attemptId, 0 = null
  nextId,                \* next attempt id the backend hands out
  starts,                \* invocations of startInterview
  stops,                 \* invocations of stopInterview
  streams,               \* MediaStreams handed out by the device APIs
  recorders,             \* MediaRecorders created
  mediaRecorderRef,      \* index into recorders, 0 = unset
  screenRecorderRef,     \* index into recorders, 0 = unset
  videoStreamRef,        \* room: index into streams, 0 = unset
  screenStreamRef,       \* room: index into streams, 0 = unset
  timers,                \* setInterval timers of the detection loop
  faceDetectIntervalRef, \* index into timers, 0 = null
  pending,               \* attempt ids of detection ticks awaiting the detector
  pasteListeners,        \* render generations whose onPaste is attached
  blurListener,          \* the mount effect's blur listener is attached
  proctoring,            \* proctoring.current
  editorEvents,          \* editorEvents.current.paste_count
  faceCount,             \* useState faceCount (room: faceDetected, as 0 or 1)
  violations,            \* violations / proctoringFlags
  now,                   \* Date.now(), in ms
  toasts,                \* user-facing notifications of the aggregator
  flagPosts,             \* sendProctoringFlag calls
  lastAlert,             \* the latest alert() or toast of the lifecycle
  calls,                 \* calls of the device APIs and of POST /start
  posts,                 \* HTTP posts per attempt and kind
  summaries,             \* editor_events payloads posted
  questions,             \* questions.length
  currentQuestion,       \* currentQuestion / currentQuestionIndex
  spoken,                \* the text nextQuestion last gave to speakQuestion
  showWarning,           \* useState showWarning: the warning banner is shown
  warningTimers,         \* due times of addViolation's pending setTimeouts
  speechSynthesis,       \* window.speechSynthesis: "present", "absent", or
                         \* "unknown" until speakQuestion first reads it
  utterances,            \* utterances given to speak() with callbacks to come
  speaking,              \* useState speaking: the narration indicator
  narration,             \* pending narration timeouts of startInterview
  simulation,            \* the simulation prop and whether its effect has run
  mounted                \* the component is mounted

vars == <<impl, hasFaceDetector, isLoading, gen, recording, attemptId, nextId,
          starts, stops, streams, recorders, mediaRecorderRef,
          screenRecorderRef, videoStreamRef, screenStreamRef, timers,
          faceDetectIntervalRef, pending, pasteListeners, blurListener,
          proctoring, editorEvents, faceCount, violations, now, toasts,
          flagPosts, lastAlert, calls, posts, summaries, questions,
          currentQuestion, spoken, showWarning, warningTimers,
          speechSynthesis, utterances, speaking, narration, simulation,
          mounted>>

Kinds == {"video", "screen", "editor_events", "finish", "face-flag"}
AttemptIds == 0..(MaxStarts + 1)

\* variables of the violation aggregator
aggVars == <<violations, now, toasts, flagPosts, showWarning, warningTimers>>
\* variables of the detection loop
detectVars == <<timers, faceDetectIntervalRef, pending>>
\* variables of the media objects
mediaVars == <<streams, recorders, mediaRecorderRef, screenRecorderRef,
               videoStreamRef, screenStreamRef>>

\* variables of the question sequencer
speechVars == <<speechSynthesis, utterances, speaking>>
navVars == <<questions, simulation, mounted, currentQuestion, spoken,
             speechVars, narration>>

InFlight(pc) == pc \notin {"done", "failed"}

\* A re-render makes new closures (onPaste, startInterview, ...).  The
\* generation only advances when some listener or running invocation still
\* holds a closure of the current one; otherwise the number is reused.
Rerender(ls, ss) ==
  IF gen \in ls \/ (\E i \in 1..Len(ss) : InFlight(ss[i].pc) /\ ss[i].gen = gen)
  THEN gen + 1 ELSE gen

Post(p, id, kind) == [p EXCEPT ![id][kind] = @ + 1]

\* the simulation prop: prompt is the number of non-empty lines of a
\* non-empty prompt, -1 without a prompt; structured is the number of
\* entries of simulation.questions; parsed tells that the effect on
\* [simulation] has run
NoSimulation == [prompt |-> -1, structured |-> 0, parsed |-> TRUE]

Simulations ==
  [prompt : -1..MaxLines, structured : 0..MaxQuestions, parsed : {FALSE}]

\* the simulations of the sessions: no prompt, a one-line prompt, a
\* four-line prompt, the effect done
Mounted == [prompt : {-1, 1, 4}, structured : {0}, parsed : {TRUE}]

\* lines.length > 3 ? lines.slice(0, 5) : [prompt, four generic questions]
extractedQuestions(lines) ==
  IF lines > 3 THEN (IF lines < 5 THEN lines ELSE 5) ELSE 1 + 4

\* the effect on [simulation]: setQuestions only if there is a prompt
setQuestions(prev, sim) ==
  IF sim.prompt >= 0 THEN extractedQuestions(sim.prompt) ELSE prev

\* questions.length: InterviewRecorder extracts 4 or 5 questions from the
\* simulation prompt and has none without a prompt; the earlier component
\* has no questions; InterviewRoom is handed the list as a prop
QuestionCounts ==
  CASE impl = "recorder" ->
         {IF simulation.parsed THEN setQuestions(0, simulation) ELSE 0}
    [] impl = "legacy" -> {0}
    [] impl = "room" -> 1..MaxQuestions

\* the state after construction, for a simulation prop in S
Boot(S) ==
  /\ impl \in Impls
  /\ simulation \in (IF impl = "recorder" THEN S ELSE {NoSimulation})
  /\ hasFaceDetector \in (IF impl = "room" THEN {FALSE} ELSE BOOLEAN)
  /\ isLoading = (impl = "room")
  /\ gen = 0
  /\ recording = FALSE
  /\ attemptId = 0
  /\ nextId = 1
  /\ starts = <<>>
  /\ stops = <<>>
  /\ streams = <<>>
  /\ recorders = <<>>
  /\ mediaRecorderRef = 0
  /\ screenRecorderRef = 0
  /\ videoStreamRef = 0
  /\ screenStreamRef = 0
  /\ timers = <<>>
  /\ faceDetectIntervalRef = 0
  /\ pending = {}
  /\ pasteListeners = {}
  /\ blurListener = (impl # "room")
  /\ proctoring = [tab_blur_count |-> 0, multiple_faces |-> FALSE, face_count |-> 0]
  /\ editorEvents = 0
  /\ faceCount = 0
  /\ violations = <<>>
  /\ now = 0
  /\ toasts = <<>>
  /\ flagPosts = 0
  /\ lastAlert = "none"
  /\ calls = [getUserMedia |-> 0, getDisplayMedia |-> 0, start |-> 0]
  /\ posts = [id \in AttemptIds |-> [k \in Kinds |-> 0]]
  /\ summaries = <<>>
  /\ questions \in QuestionCounts
  /\ currentQuestion = 0
  /\ spoken = [kind |-> "none", q |-> 0]
  /\ showWarning = FALSE
  /\ warningTimers = {}
  /\ speechSynthesis = "unknown"
  /\ utterances = <<>>
  /\ speaking = FALSE
  /\ narration = {}
  /\ mounted = TRUE

Init == Boot(Mounted)

\* InterviewRecorder as mounted, before its effect on [simulation] has run
InitMount == Boot(Simulations)

\* the effect on [simulation] runs after the first render
questionsEffect ==
  /\ impl = "recorder"
  /\ ~simulation.parsed
  /\ simulation' = [simulation EXCEPT !.parsed = TRUE]
  /\ questions' = setQuestions(questions, simulation)
  /\ gen' = IF questions' # questions
            THEN Rerender(pasteListeners, starts) ELSE gen
  /\ UNCHANGED <<mounted, currentQuestion, spoken, speechVars, narration,
                 impl, hasFaceDetector, isLoading, recording, attemptId,
                 nextId, starts, stops, mediaVars, detectVars, pasteListeners,
                 blurListener, proctoring, editorEvents, faceCount, violations,
                 now, toasts, flagPosts, showWarning, warningTimers, lastAlert,
                 calls, posts, summaries>>

\* ---------------------------------------------------------------------
\* Violation aggregator
\* ---------------------------------------------------------------------
Step == 1000        \* granularity of the clock, ms: the shortest tick period
DedupWindow == 5000 \* ms
WarningMs == 5000   \* ms the warning banner stays after a violation
MinQuestions == 5   \* entries of the fallback question list

Types == {"TAB_BLUR", "PASTE", "NO_FACE", "MULTIPLE_FACES"}

IsNoFace(f) == f.type = "NO_FACE"

\* the recorder's log, which nothing else bounds, is capped at MaxLog
LogRoom(k) == Len(violations) + k <= MaxLog

\* the clock advances
Advance ==
  /\ now < MaxSteps * Step
  /\ now' = now + Step
  /\ UNCHANGED <<navVars, impl, hasFaceDetector, isLoading, gen, recording, attemptId,
                 nextId, starts, stops, streams, recorders, mediaRecorderRef,
                 screenRecorderRef, videoStreamRef, screenStreamRef, timers,
                 faceDetectIntervalRef, pending, pasteListeners, blurListener,
                 proctoring, editorEvents, faceCount, violations, toasts,
                 flagPosts, showWarning, warningTimers, lastAlert, calls,
                 posts, summaries>>

\* InterviewRecorder.addViolation: every call appends
addViolationTo(log, type) == Append(log, [type |-> type, ts |-> now])

\* the banner is shown and a timeout that hides it is scheduled; timeouts
\* due at the same time are kept as one
addViolation(type) ==
  /\ LogRoom(1)
  /\ violations' = addViolationTo(violations, type)
  /\ showWarning' = TRUE
  /\ warningTimers' = warningTimers \cup {now + WarningMs}
  /\ UNCHANGED <<now, toasts, flagPosts>>

\* a timeout of addViolation fires: setShowWarning(false)
hideWarning(d) ==
  /\ d \in warningTimers /\ d <= now
  /\ warningTimers' = warningTimers \ {d}
  /\ showWarning' = FALSE
  /\ gen' = IF showWarning THEN Rerender(pasteListeners, starts) ELSE gen
  /\ UNCHANGED <<navVars, impl, hasFaceDetector, isLoading, recording, attemptId,
                 nextId, starts, stops, mediaVars, detectVars, pasteListeners,
                 blurListener, proctoring, editorEvents, faceCount, violations,
                 now, toasts, flagPosts, lastAlert, calls, posts, summaries>>

\* a suppression window that events of any type open
recentFlag_anyType(prev, type) ==
  \E i \in 1..Len(prev) : prev[i].ts > now - DedupWindow

\* InterviewRoom.addProctoringFlag: the updater of setProctoringFlags
recentFlag(prev, type) ==
  \E i \in 1..Len(prev) : prev[i].type = type /\ prev[i].ts > now - DedupWindow

\* addProctoringFlag that notifies on every logged event
addProctoringFlag_alwaysNotifies(type, q) ==
  IF ~recentFlag(violations, type)
  THEN /\ flagPosts' = flagPosts + 1
       /\ toasts' = Append(toasts, [type |-> type, ts |-> now])
       /\ violations' = Append(violations, [type |-> type, ts |-> now, q |-> q])
       /\ UNCHANGED <<now, showWarning, warningTimers>>
  ELSE UNCHANGED aggVars

addProctoringFlag(type, q) ==
  IF ~recentFlag(violations, type)
  THEN /\ flagPosts' = flagPosts + 1
       /\ toasts' = IF type # "NO_FACE" \/ Len(SelectSeq(violations, IsNoFace)) % 3 = 0
                    THEN Append(toasts, [type |-> type, ts |-> now])
                    ELSE toasts
       /\ violations' = Append(violations, [type |-> type, ts |-> now, q |-> q])
       /\ UNCHANGED <<now, showWarning, warningTimers>>
  ELSE UNCHANGED aggVars

\* ---------------------------------------------------------------------
\* InterviewRecorder (recorder, legacy): startInterview
\* ---------------------------------------------------------------------
IsRecorder == impl \in {"recorder", "legacy"}

EndStart(i, pc) == [starts EXCEPT ![i].pc = pc]

\* the outer catch of startInterview: alert("Failed to start interview: ...")
startInterview_catch(i) ==
  /\ starts' = EndStart(i, "failed")
  /\ lastAlert' = "start_failed"

\* startInterview without the return after a declined pre-prompt
startInterview_noReturnOnDecline(sim, granted) ==
  /\ IsRecorder
  /\ ~recording
  /\ sim # 0
  /\ Len(starts) < MaxStarts
  /\ lastAlert' = IF granted THEN lastAlert ELSE "permission_required"
  /\ calls' = [calls EXCEPT !.getUserMedia = @ + 1]
  /\ starts' = Append(starts, [pc |-> "getUserMedia", gen |-> gen,
                               cam |-> 0, id |-> 0, screen |-> "none",
                               q |-> currentQuestion])
  /\ UNCHANGED <<navVars, impl, hasFaceDetector, isLoading, gen, recording, attemptId,
                 nextId, stops, mediaVars, detectVars, pasteListeners,
                 blurListener, proctoring, editorEvents, faceCount, aggVars,
                 posts, summaries>>

\* startInterview without the return after the missing-simulation alert
startInterview_noReturnOnNoSimulation(sim, granted) ==
  /\ IsRecorder
  /\ ~recording
  /\ IF sim # 0 /\ ~granted
     THEN /\ lastAlert' = "permission_required"
          /\ UNCHANGED <<starts, calls>>
     ELSE /\ Len(starts) < MaxStarts
          /\ lastAlert' = IF sim = 0 THEN "no_simulation" ELSE lastAlert
          /\ calls' = [calls EXCEPT !.getUserMedia = @ + 1]
          /\ starts' = Append(starts, [pc |-> "getUserMedia", gen |-> gen,
                                       cam |-> 0, id |-> 0, screen |-> "none",
                                       q |-> currentQuestion])
  /\ UNCHANGED <<navVars, impl, hasFaceDetector, isLoading, gen, recording,
                 attemptId, nextId, stops, mediaVars, detectVars,
                 pasteListeners, blurListener, proctoring, editorEvents,
                 faceCount, aggVars, posts, summaries>>

\* click on Start Interview, up to the await of getUserMedia
startInterview(sim, granted) ==
  /\ IsRecorder
  /\ ~recording
  /\ IF sim = 0
     THEN /\ lastAlert' = "no_simulation"
          /\ UNCHANGED <<starts, calls>>
     ELSE IF ~granted
     THEN /\ lastAlert' = "permission_required"
          /\ UNCHANGED <<starts, calls>>
     ELSE /\ Len(starts) < MaxStarts
          /\ calls' = [calls EXCEPT !.getUserMedia = @ + 1]
          /\ starts' = Append(starts, [pc |-> "getUserMedia", gen |-> gen,
                                       cam |-> 0, id |-> 0, screen |-> "none",
                               q |-> currentQuestion])
          /\ UNCHANGED lastAlert
  /\ UNCHANGED <<navVars, impl, hasFaceDetector, isLoading, gen, recording, attemptId,
                 nextId, stops, mediaVars, detectVars, pasteListeners,
                 blurListener, proctoring, editorEvents, faceCount, aggVars,
                 posts, summaries>>

\* getUserMedia settles; on success POST /start is issued
startInterview_getUserMedia(i, ok) ==
  /\ IsRecorder
  /\ i \in 1..Len(starts) /\ starts[i].pc = "getUserMedia"
  /\ IF ok
     THEN /\ streams' = Append(streams, [kind |-> "cam", live |-> TRUE])
          /\ starts' = [starts EXCEPT ![i].pc = "post_start",
                                      ![i].cam = Len(streams) + 1]
          /\ calls' = [calls EXCEPT !.start = @ + 1]
          /\ UNCHANGED lastAlert
     ELSE /\ lastAlert' = "media_failed"
          /\ starts' = EndStart(i, "failed")
          /\ UNCHANGED <<streams, calls>>
  /\ UNCHANGED <<navVars, impl, hasFaceDetector, isLoading, gen, recording, attemptId,
                 nextId, stops, recorders, mediaRecorderRef, screenRecorderRef,
                 videoStreamRef, screenStreamRef, detectVars, pasteListeners,
                 blurListener, proctoring, editorEvents, faceCount, aggVars,
                 posts, summaries>>

\* POST /start settles; on success setAttemptId(id) and videoRef.play()
startInterview_post(i, ok) ==
  /\ IsRecorder
  /\ i \in 1..Len(starts) /\ starts[i].pc = "post_start"
  /\ IF ok
     THEN /\ starts' = [starts EXCEPT ![i].pc = "play", ![i].id = nextId]
          /\ nextId' = nextId + 1
          /\ attemptId' = nextId
          /\ gen' = Rerender(pasteListeners, starts')
          /\ UNCHANGED lastAlert
     ELSE /\ startInterview_catch(i)
          /\ UNCHANGED <<nextId, attemptId, gen>>
  /\ UNCHANGED <<navVars, impl, hasFaceDetector, isLoading, recording, stops, mediaVars,
                 detectVars, pasteListeners, blurListener, proctoring,
                 editorEvents, faceCount, aggVars, calls, posts, summaries>>

\* play() settles; on success the camera recorder starts and
\* getDisplayMedia is requested
startInterview_play(i, ok) ==
  /\ IsRecorder
  /\ i \in 1..Len(starts) /\ starts[i].pc = "play"
  /\ IF ok
     THEN /\ recorders' = Append(recorders,
             [kind |-> "video", state |-> "recording", id |-> starts[i].id,
              flush |-> FALSE, dropped |-> 0])
          /\ mediaRecorderRef' = Len(recorders) + 1
          /\ calls' = [calls EXCEPT !.getDisplayMedia = @ + 1]
          /\ starts' = EndStart(i, "getDisplayMedia")
          /\ UNCHANGED lastAlert
     ELSE /\ startInterview_catch(i)
          /\ UNCHANGED <<recorders, mediaRecorderRef, calls>>
  /\ UNCHANGED <<navVars, impl, hasFaceDetector, isLoading, gen, recording, attemptId,
                 nextId, stops, streams, screenRecorderRef, videoStreamRef,
                 screenStreamRef, detectVars, pasteListeners, blurListener,
                 proctoring, editorEvents, faceCount, aggVars, posts,
                 summaries>>

\* startFaceDetection: the recorder always sets the interval, the legacy
\* component only when the FaceDetector API exists
startFaceDetection(id, q) ==
  IF impl = "recorder" \/ hasFaceDetector
  THEN /\ timers' = Append(timers, [active |-> TRUE, id |-> id, q |-> q,
                                    errors |-> 0])
       /\ faceDetectIntervalRef' = Len(timers) + 1
       /\ UNCHANGED pending
  ELSE UNCHANGED detectVars

\* getDisplayMedia settles; the rest of startInterview runs
startInterview_getDisplayMedia(i, ok) ==
  /\ IsRecorder
  /\ i \in 1..Len(starts) /\ starts[i].pc = "getDisplayMedia"
  /\ IF ok
     THEN /\ streams' = Append(streams, [kind |-> "screen", live |-> TRUE])
          /\ recorders' = Append(recorders,
               [kind |-> "screen", state |-> "recording", id |-> starts[i].id,
                flush |-> FALSE, dropped |-> 0])
          /\ screenRecorderRef' = Len(recorders) + 1
     ELSE UNCHANGED <<streams, recorders, screenRecorderRef>>
  /\ IF ~ok /\ impl = "legacy"
     THEN \* no inner try: the rejection reaches the outer catch
          /\ starts' = [starts EXCEPT ![i].pc = "failed", ![i].screen = "denied"]
          /\ lastAlert' = "start_failed"
          /\ UNCHANGED <<detectVars, pasteListeners, recording, gen>>
     ELSE /\ starts' = [starts EXCEPT ![i].pc = "done",
                          ![i].screen = IF ok THEN "granted" ELSE "denied"]
          /\ startFaceDetection(starts[i].id, starts[i].q)
          /\ pasteListeners' = pasteListeners \cup {starts[i].gen}
          /\ recording' = TRUE
          /\ gen' = IF recording THEN gen ELSE Rerender(pasteListeners', starts')
          /\ UNCHANGED lastAlert
  /\ narration' = IF impl = "recorder" /\ starts'[i].pc = "done"
                  THEN narration \cup {<<"welcome", i>>, <<"first", i>>}
                  ELSE narration
  /\ UNCHANGED <<questions, simulation, mounted,
                 currentQuestion, spoken, speechVars, impl,
                 hasFaceDetector, isLoading, attemptId, nextId, stops,
                 mediaRecorderRef, videoStreamRef, screenStreamRef,
                 blurListener, proctoring, editorEvents, faceCount, aggVars,
                 calls, posts, summaries>>

\* ---------------------------------------------------------------------
\* InterviewRecorder (recorder, legacy): stopInterview
\* ---------------------------------------------------------------------
\* recorder.stop() unless already inactive; stop() queues a last
\* dataavailable event
StopRecorder(recs, r) ==
  IF r # 0 /\ recs[r].state # "inactive"
  THEN [recs EXCEPT ![r].state = "inactive", ![r].flush = TRUE]
  ELSE recs

\* stopFaceDetection / clearInterval
ClearTimer(ts, t) == IF t # 0 THEN [ts EXCEPT ![t].active = FALSE] ELSE ts

SummaryPayload(id) ==
  [id |-> id, paste_count |-> editorEvents, proctoring |-> proctoring]

\* click on Stop & Submit, up to the await of the editor_events upload
stopInterview ==
  /\ IsRecorder
  /\ recording
  /\ Len(stops) < MaxStops
  /\ recorders' = StopRecorder(StopRecorder(recorders, mediaRecorderRef),
                               screenRecorderRef)
  /\ timers' = ClearTimer(timers, faceDetectIntervalRef)
  /\ faceDetectIntervalRef' = 0
  /\ pasteListeners' = pasteListeners \ {gen}
  /\ summaries' = Append(summaries, SummaryPayload(attemptId))
  /\ posts' = Post(posts, attemptId, "editor_events")
  /\ stops' = Append(stops, [pc |-> "upload", id |-> attemptId])
  /\ UNCHANGED <<navVars, impl, hasFaceDetector, isLoading, gen, recording, attemptId,
                 nextId, starts, streams, mediaRecorderRef, screenRecorderRef,
                 videoStreamRef, screenStreamRef, pending, blurListener,
                 proctoring, editorEvents, faceCount, aggVars, lastAlert, calls>>

\* the editor_events upload settles; on success POST /finish is issued,
\* on failure the rejection leaves stopInterview (nothing catches it)
stopInterview_upload(j, ok) ==
  /\ IsRecorder
  /\ j \in 1..Len(stops) /\ stops[j].pc = "upload"
  /\ IF ok
     THEN /\ posts' = Post(posts, stops[j].id, "finish")
          /\ stops' = [stops EXCEPT ![j].pc = "finish"]
     ELSE /\ stops' = [stops EXCEPT ![j].pc = "thrown"]
          /\ UNCHANGED posts
  /\ UNCHANGED <<navVars, impl, hasFaceDetector, isLoading, gen, recording, attemptId,
                 nextId, starts, mediaVars, detectVars, pasteListeners,
                 blurListener, proctoring, editorEvents, faceCount, aggVars,
                 lastAlert, calls, summaries>>

\* POST /finish settles; on success alert and setRecording(false)
stopInterview_finish(j, ok) ==
  /\ IsRecorder
  /\ j \in 1..Len(stops) /\ stops[j].pc = "finish"
  /\ IF ok
     THEN /\ stops' = [stops EXCEPT ![j].pc = "done"]
          /\ lastAlert' = "submitted"
          /\ recording' = FALSE
          /\ gen' = IF recording THEN Rerender(pasteListeners, starts) ELSE gen
     ELSE /\ stops' = [stops EXCEPT ![j].pc = "thrown"]
          /\ UNCHANGED <<lastAlert, recording, gen>>
  /\ UNCHANGED <<navVars, impl, hasFaceDetector, isLoading, attemptId, nextId, starts,
                 mediaVars, detectVars, pasteListeners, blurListener,
                 proctoring, editorEvents, faceCount, aggVars, calls, posts,
                 summaries>>

\* ---------------------------------------------------------------------
\* MediaRecorder callbacks and uploadChunk
\* ---------------------------------------------------------------------
\* uploadChunk whose failure reaches the recorder and stops it
uploadChunk_failureStopsRecorder(recs, r, ok) ==
  /\ posts' = Post(posts, recs[r].id, recs[r].kind)
  /\ recorders' = IF ok THEN recs
                  ELSE [recs EXCEPT ![r].dropped = @ + 1,
                                    ![r].state = "inactive"]

\* uploadChunk(id, kind, blob): the POST is issued; when it fails the
\* .catch logs a warning and the chunk of recorder r is dropped
uploadChunk(recs, r, ok) ==
  /\ posts' = Post(posts, recs[r].id, recs[r].kind)
  /\ recorders' = IF ok THEN recs ELSE [recs EXCEPT ![r].dropped = @ + 1]

\* ondataavailable of a recorder: a timeslice chunk while it records, or
\* the last chunk that stop() queued; empty data is not uploaded
ondataavailable(r, nonempty, ok) ==
  /\ IsRecorder
  /\ r \in 1..Len(recorders)
  /\ \/ recorders[r].state = "recording" /\ nonempty
     \/ recorders[r].flush
  /\ LET recs == [recorders EXCEPT ![r].flush = FALSE] IN
     IF nonempty
     THEN /\ posts[recorders[r].id][recorders[r].kind] < MaxChunks
          /\ uploadChunk(recs, r, ok)
     ELSE /\ ok
          /\ recorders' = recs
          /\ UNCHANGED posts
  /\ UNCHANGED <<navVars, impl, hasFaceDetector, isLoading, gen, recording, attemptId,
                 nextId, starts, stops, streams, mediaRecorderRef,
                 screenRecorderRef, videoStreamRef, screenStreamRef,
                 detectVars, pasteListeners, blurListener, proctoring,
                 editorEvents, faceCount, aggVars, lastAlert, calls, summaries>>

\* ---------------------------------------------------------------------
\* DOM listeners
\* ---------------------------------------------------------------------
\* window blur: the listener of the mount effect
onBlur ==
  /\ IsRecorder
  /\ blurListener
  /\ proctoring.tab_blur_count < MaxCount
  /\ proctoring' = [proctoring EXCEPT !.tab_blur_count = @ + 1]
  /\ IF impl = "recorder"
     THEN /\ addViolation("TAB_BLUR")
          /\ gen' = Rerender(pasteListeners, starts)
     ELSE UNCHANGED <<aggVars, gen>>
  /\ UNCHANGED <<navVars, impl, hasFaceDetector, isLoading, recording, attemptId,
                 nextId, starts, stops, mediaVars, detectVars, pasteListeners,
                 blurListener, editorEvents, faceCount, lastAlert, calls, posts,
                 summaries>>

RECURSIVE Repeat(_, _, _)
Repeat(log, type, k) ==
  IF k = 0 THEN log ELSE Repeat(addViolationTo(log, type), type, k - 1)

\* window paste: every attached onPaste closure runs
onPaste ==
  /\ IsRecorder
  /\ pasteListeners # {}
  /\ LET k == Cardinality(pasteListeners) IN
     /\ editorEvents + k <= MaxCount
     /\ editorEvents' = editorEvents + k
     /\ IF impl = "recorder"
        THEN /\ LogRoom(k)
             /\ violations' = Repeat(violations, "PASTE", k)
             /\ showWarning' = TRUE
             /\ warningTimers' = warningTimers \cup {now + WarningMs}
             /\ gen' = Rerender(pasteListeners, starts)
             /\ UNCHANGED <<now, toasts, flagPosts>>
        ELSE UNCHANGED <<aggVars, gen>>
  /\ UNCHANGED <<navVars, impl, hasFaceDetector, isLoading, recording, attemptId,
                 nextId, starts, stops, mediaVars, detectVars, pasteListeners,
                 blurListener, proctoring, faceCount, lastAlert, calls, posts,
                 summaries>>

\* ---------------------------------------------------------------------
\* Detection loop
\* ---------------------------------------------------------------------
\* sendFaceFlag(attemptId, payload): the POST is issued; its failure is
\* caught inside sendFaceFlag
sendFaceFlag(id) ==
  /\ posts[id]["face-flag"] < MaxFlags
  /\ posts' = Post(posts, id, "face-flag")

\* a tick that awaits a detector whether or not the browser has one
tick_awaitsMissingDetector(t) ==
  /\ t \in 1..Len(timers) /\ timers[t].active
  /\ timers[t].id \notin pending
  /\ pending' = pending \cup {timers[t].id}
  /\ UNCHANGED <<navVars, impl, hasFaceDetector, isLoading, gen, recording, attemptId,
                 nextId, starts, stops, mediaVars, timers,
                 faceDetectIntervalRef, pasteListeners, blurListener,
                 proctoring, editorEvents, faceCount, aggVars, lastAlert, calls,
                 posts, summaries>>

\* the interval callback up to the await of the detector
tick(t) ==
  /\ t \in 1..Len(timers) /\ timers[t].active
  /\ impl = "recorder" => hasFaceDetector
  /\ timers[t].id \notin pending
  /\ pending' = pending \cup {timers[t].id}
  /\ UNCHANGED <<navVars, impl, hasFaceDetector, isLoading, gen, recording, attemptId,
                 nextId, starts, stops, mediaVars, timers,
                 faceDetectIntervalRef, pasteListeners, blurListener,
                 proctoring, editorEvents, faceCount, aggVars, lastAlert, calls,
                 posts, summaries>>

\* the interval callback of the recorder without FaceDetector: the pixel
\* heuristic, run synchronously
tickFallback(t, skin) ==
  /\ impl = "recorder" /\ ~hasFaceDetector
  /\ t \in 1..Len(timers) /\ timers[t].active
  /\ faceCount' = IF skin THEN 1 ELSE 0
  /\ IF skin THEN UNCHANGED aggVars ELSE addViolation("NO_FACE")
  /\ gen' = IF faceCount' # faceCount \/ ~skin
            THEN Rerender(pasteListeners, starts) ELSE gen
  /\ UNCHANGED <<navVars, impl, hasFaceDetector, isLoading, recording, attemptId,
                 nextId, starts, stops, mediaVars, detectVars, pasteListeners,
                 blurListener, proctoring, editorEvents, lastAlert, calls, posts,
                 summaries>>

\* InterviewRecorder: the detector reports count faces
detect_recorder(id, count) ==
  /\ faceCount' = count
  /\ proctoring' = [proctoring EXCEPT
       !.face_count = count,
       !.multiple_faces = IF count > 1 THEN TRUE
                          ELSE IF count = 1 THEN FALSE ELSE @]
  /\ IF count = 0
     THEN addViolation("NO_FACE") /\ sendFaceFlag(id)
     ELSE IF count > 1
     THEN addViolation("MULTIPLE_FACES") /\ sendFaceFlag(id)
     ELSE UNCHANGED <<aggVars, posts>>
  /\ gen' = IF count # faceCount \/ count # 1
            THEN Rerender(pasteListeners, starts) ELSE gen

\* part_000: the detector reports count faces
detect_legacy(id, count) ==
  /\ proctoring' = [proctoring EXCEPT
       !.face_count = count,
       !.multiple_faces = IF count > 1 THEN TRUE ELSE @]
  /\ IF count > 1 THEN sendFaceFlag(id) ELSE UNCHANGED posts
  /\ UNCHANGED <<faceCount, aggVars, gen>>

\* InterviewRoom: detectAllFaces reports count faces; q is the
\* currentQuestionIndex of the addProctoringFlag closure the interval holds
detect_room(count, q) ==
  /\ IF count = 0 THEN addProctoringFlag("NO_FACE", q)
     ELSE IF count > 1 THEN addProctoringFlag("MULTIPLE_FACES", q)
     ELSE UNCHANGED aggVars
  /\ faceCount' = IF count = 0 THEN 0 ELSE 1
  /\ gen' = IF faceCount' # faceCount \/ violations' # violations
            THEN Rerender(pasteListeners, starts) ELSE gen
  /\ UNCHANGED <<proctoring, posts>>

\* the detector resolves for a tick in flight
detect(id, count) ==
  /\ id \in pending
  /\ pending' = pending \ {id}
  /\ CASE impl = "recorder" -> detect_recorder(id, count)
       [] impl = "legacy" -> detect_legacy(id, count)
       [] impl = "room" ->
            \E t \in 1..Len(timers) :
              timers[t].id = id /\ detect_room(count, timers[t].q)
  /\ UNCHANGED <<navVars, impl, hasFaceDetector, isLoading, recording, attemptId,
                 nextId, starts, stops, mediaVars, timers,
                 faceDetectIntervalRef, pasteListeners, blurListener,
                 editorEvents, lastAlert, calls, summaries>>

\* the catch of the interval callback: the error is logged
CatchTickError(ts, t) == [ts EXCEPT ![t].errors = @ + 1]

\* the interval callback throws before it awaits anything (drawing the
\* frame fails): caught and logged
tick_catch(t) ==
  /\ IsRecorder
  /\ t \in 1..Len(timers) /\ timers[t].active
  /\ timers[t].errors < MaxErrors
  /\ timers' = CatchTickError(timers, t)
  /\ UNCHANGED <<navVars, impl, hasFaceDetector, isLoading, gen, recording,
                 attemptId, nextId, starts, stops, mediaVars,
                 faceDetectIntervalRef, pending, pasteListeners, blurListener,
                 proctoring, editorEvents, faceCount, aggVars, lastAlert, calls,
                 posts, summaries>>

\* a catch that also cancels the interval
detect_catch_clearsInterval(id) ==
  /\ id \in pending
  /\ pending' = pending \ {id}
  /\ \E t \in 1..Len(timers) :
       /\ timers[t].id = id
       /\ timers[t].errors < MaxErrors
       /\ timers' = [timers EXCEPT ![t].errors = @ + 1, ![t].active = FALSE]
  /\ UNCHANGED <<navVars, impl, hasFaceDetector, isLoading, gen, recording,
                 attemptId, nextId, starts, stops, mediaVars,
                 faceDetectIntervalRef, pasteListeners, blurListener,
                 proctoring, editorEvents, faceCount, aggVars, lastAlert, calls,
                 posts, summaries>>

\* the detector rejects for a tick in flight: caught and logged
detect_catch(id) ==
  /\ id \in pending
  /\ pending' = pending \ {id}
  /\ \E t \in 1..Len(timers) :
       /\ timers[t].id = id
       /\ timers[t].errors < MaxErrors
       /\ timers' = CatchTickError(timers, t)
  /\ UNCHANGED <<navVars, impl, hasFaceDetector, isLoading, gen, recording,
                 attemptId, nextId, starts, stops, mediaVars,
                 faceDetectIntervalRef, pasteListeners, blurListener,
                 proctoring, editorEvents, faceCount, aggVars, lastAlert, calls,
                 posts, summaries>>

\* ---------------------------------------------------------------------
\* InterviewRoom (room)
\* ---------------------------------------------------------------------
\* loadFaceApi / loadModels settle: the models are loaded or not
loadModels(ok) ==
  /\ impl = "room"
  /\ isLoading
  /\ isLoading' = FALSE
  /\ hasFaceDetector' = ok
  /\ lastAlert' = IF ok THEN "proctoring_ready" ELSE "models_failed"
  /\ gen' = Rerender(pasteListeners, starts)
  /\ UNCHANGED <<navVars, impl, recording, attemptId, nextId, starts, stops, mediaVars,
                 detectVars, pasteListeners, blurListener, proctoring,
                 editorEvents, faceCount, aggVars, calls, posts, summaries>>

StopTracks(ss, k) == IF k # 0 THEN [ss EXCEPT ![k].live = FALSE] ELSE ss

\* cleanup(): the refs keep their values
cleanup ==
  /\ timers' = ClearTimer(timers, faceDetectIntervalRef)
  /\ streams' = StopTracks(StopTracks(streams, videoStreamRef), screenStreamRef)
  /\ recorders' = StopRecorder(recorders, screenRecorderRef)
  /\ recording' = FALSE
  /\ UNCHANGED <<faceDetectIntervalRef, pending, videoStreamRef,
                 screenStreamRef, screenRecorderRef>>

\* the component is unmounted: the cleanup of the mount effect runs, which
\* is cleanup() in InterviewRoom and the removal of the blur listener in
\* InterviewRecorder
unmount ==
  /\ mounted
  /\ mounted' = FALSE
  /\ IF impl = "room"
     THEN cleanup /\ UNCHANGED <<mediaRecorderRef, blurListener>>
     ELSE /\ blurListener' = FALSE
          /\ UNCHANGED <<mediaVars, detectVars, recording>>
  /\ UNCHANGED <<questions, simulation, currentQuestion, spoken, speechVars,
                 narration, impl, hasFaceDetector, isLoading, gen, attemptId,
                 nextId, starts, stops, pasteListeners, proctoring,
                 editorEvents, faceCount, aggVars, lastAlert, calls, posts,
                 summaries>>

\* click on Start Interview, up to the await of getUserMedia
Room_startInterview ==
  /\ impl = "room"
  /\ ~recording /\ ~isLoading
  /\ Len(starts) < MaxStarts
  /\ calls' = [calls EXCEPT !.getUserMedia = @ + 1]
  /\ starts' = Append(starts, [pc |-> "getUserMedia", gen |-> gen, cam |-> 0,
                               id |-> 0, screen |-> "none",
                               q |-> currentQuestion])
  /\ UNCHANGED <<navVars, impl, hasFaceDetector, isLoading, gen, recording, attemptId,
                 nextId, stops, mediaVars, detectVars, pasteListeners,
                 blurListener, proctoring, editorEvents, faceCount, aggVars,
                 lastAlert, posts, summaries>>

\* getUserMedia settles; on success getDisplayMedia is requested
Room_getUserMedia(i, ok) ==
  /\ impl = "room"
  /\ i \in 1..Len(starts) /\ starts[i].pc = "getUserMedia"
  /\ IF ok
     THEN /\ streams' = Append(streams, [kind |-> "cam", live |-> TRUE])
          /\ videoStreamRef' = Len(streams) + 1
          /\ starts' = [starts EXCEPT ![i].pc = "getDisplayMedia",
                                      ![i].cam = Len(streams) + 1]
          /\ calls' = [calls EXCEPT !.getDisplayMedia = @ + 1]
          /\ UNCHANGED lastAlert
     ELSE /\ lastAlert' = "camera_required"
          /\ starts' = EndStart(i, "failed")
          /\ UNCHANGED <<streams, videoStreamRef, calls>>
  /\ UNCHANGED <<navVars, impl, hasFaceDetector, isLoading, gen, recording, attemptId,
                 nextId, stops, recorders, mediaRecorderRef, screenRecorderRef,
                 screenStreamRef, detectVars, pasteListeners, blurListener,
                 proctoring, editorEvents, faceCount, aggVars, posts,
                 summaries>>

\* getDisplayMedia settles: the screen recorder starts and the session
\* records, or the start is abandoned through cleanup()
Room_getDisplayMedia(i, ok) ==
  /\ impl = "room"
  /\ i \in 1..Len(starts) /\ starts[i].pc = "getDisplayMedia"
  /\ IF ok
     THEN /\ streams' = Append(streams, [kind |-> "screen", live |-> TRUE])
          /\ screenStreamRef' = Len(streams) + 1
          /\ recorders' = Append(recorders,
               [kind |-> "screen", state |-> "recording", id |-> 0,
                flush |-> FALSE, dropped |-> 0])
          /\ screenRecorderRef' = Len(recorders) + 1
          /\ recording' = TRUE
          /\ IF hasFaceDetector
             THEN /\ timers' = Append(timers, [active |-> TRUE, id |-> 0,
                                          q |-> starts[i].q, errors |-> 0])
                  /\ faceDetectIntervalRef' = Len(timers) + 1
                  /\ UNCHANGED pending
             ELSE UNCHANGED detectVars
          /\ starts' = [starts EXCEPT ![i].pc = "done", ![i].screen = "granted"]
          /\ lastAlert' = "started"
     ELSE /\ lastAlert' = "screen_required"
          /\ cleanup
          /\ starts' = [starts EXCEPT ![i].pc = "failed", ![i].screen = "denied"]
  /\ gen' = IF recording' # recording THEN Rerender(pasteListeners, starts')
            ELSE gen
  /\ IF ok THEN UNCHANGED videoStreamRef ELSE TRUE
  /\ UNCHANGED <<navVars, impl, hasFaceDetector, isLoading, attemptId, nextId, stops,
                 mediaRecorderRef, pasteListeners,
                 blurListener, proctoring, editorEvents, faceCount, aggVars,
                 calls, posts, summaries>>

\* handleSubmitInterview, up to the await of onComplete
handleSubmitInterview ==
  /\ impl = "room"
  /\ recording
  /\ Len(stops) < MaxStops
  /\ cleanup
  /\ stops' = Append(stops, [pc |-> "onComplete", id |-> 0])
  /\ gen' = Rerender(pasteListeners, starts)
  /\ UNCHANGED <<navVars, impl, hasFaceDetector, isLoading, attemptId, nextId, starts,
                 mediaRecorderRef, pasteListeners, blurListener, proctoring,
                 editorEvents, faceCount, aggVars, lastAlert, calls, posts,
                 summaries>>

\* onComplete settles: success toast, or the catch's failure toast
handleSubmitInterview_onComplete(j, ok) ==
  /\ impl = "room"
  /\ j \in 1..Len(stops) /\ stops[j].pc = "onComplete"
  /\ stops' = [stops EXCEPT ![j].pc = IF ok THEN "done" ELSE "caught"]
  /\ lastAlert' = IF ok THEN "submitted" ELSE "submit_failed"
  /\ UNCHANGED <<navVars, impl, hasFaceDetector, isLoading, gen, recording, attemptId,
                 nextId, starts, mediaVars, detectVars, pasteListeners,
                 blurListener, proctoring, editorEvents, faceCount, aggVars,
                 calls, posts, summaries>>

\* ---------------------------------------------------------------------
\* Narration (recorder)
\* ---------------------------------------------------------------------
\* speechSynthesis.cancel(): every utterance not yet over is over at once
\* and gets an error event
Cancel(us) ==
  [u \in 1..Len(us) |->
     IF us[u].state = "over" THEN us[u]
     ELSE [us[u] EXCEPT !.state = "over", !.cbs = Append(@, "error")]]

\* speakQuestion that speaks without cancelling first
speakQuestion_noCancel(text) ==
  \E sup \in (IF speechSynthesis = "unknown" THEN {"absent", "present"}
              ELSE {speechSynthesis}) :
    /\ speechSynthesis' = sup
    /\ IF sup = "absent"
       THEN UNCHANGED utterances
       ELSE /\ Len(utterances) < MaxUtterances
            /\ utterances' = Append(utterances,
                 [text |-> text, state |-> "queued", cbs |-> <<>>])

\* speakQuestion(text): nothing without speechSynthesis; else cancel, then
\* speak a new utterance
speakQuestion(text) ==
  \E sup \in (IF speechSynthesis = "unknown" THEN {"absent", "present"}
              ELSE {speechSynthesis}) :
    /\ speechSynthesis' = sup
    /\ IF sup = "absent"
       THEN UNCHANGED utterances
       ELSE /\ Len(utterances) < MaxUtterances
            /\ utterances' = Append(Cancel(utterances),
                 [text |-> text, state |-> "queued", cbs |-> <<>>])

\* the timeout of the welcome message fires
narrate_welcome(i) ==
  /\ <<"welcome", i>> \in narration
  /\ narration' = narration \ {<<"welcome", i>>}
  /\ speakQuestion([kind |-> "welcome", q |-> 0])
  /\ UNCHANGED <<questions, simulation, mounted,
                 currentQuestion, spoken, speaking, impl,
                 hasFaceDetector, isLoading, gen, recording, attemptId, nextId,
                 starts, stops, mediaVars, detectVars, pasteListeners,
                 blurListener, proctoring, editorEvents, faceCount, aggVars,
                 lastAlert, calls, posts, summaries>>

\* the timeout of the first question fires, after the welcome's
narrate_first(i) ==
  /\ <<"first", i>> \in narration /\ <<"welcome", i>> \notin narration
  /\ narration' = narration \ {<<"first", i>>}
  /\ IF questions > 0
     THEN speakQuestion([kind |-> "question", q |-> 0])
     ELSE UNCHANGED <<speechSynthesis, utterances>>
  /\ UNCHANGED <<questions, simulation, mounted,
                 currentQuestion, spoken, speaking, impl,
                 hasFaceDetector, isLoading, gen, recording, attemptId, nextId,
                 starts, stops, mediaVars, detectVars, pasteListeners,
                 blurListener, proctoring, editorEvents, faceCount, aggVars,
                 lastAlert, calls, posts, summaries>>

\* the synthesizer begins the utterance at the head of its queue
utterance_begin(u) ==
  /\ u \in 1..Len(utterances) /\ utterances[u].state = "queued"
  /\ \A v \in 1..Len(utterances) : utterances[v].state # "speaking"
  /\ \A v \in 1..(u - 1) : utterances[v].state = "over"
  /\ utterances' = [utterances EXCEPT ![u].state = "speaking",
                                      ![u].cbs = Append(@, "start")]
  /\ UNCHANGED <<questions, simulation, mounted,
                 currentQuestion, spoken, speechSynthesis, speaking,
                 narration, impl, hasFaceDetector, isLoading, gen, recording,
                 attemptId, nextId, starts, stops, mediaVars, detectVars,
                 pasteListeners, blurListener, proctoring, editorEvents,
                 faceCount, aggVars, lastAlert, calls, posts, summaries>>

\* the synthesizer reaches the end of the utterance it is speaking
utterance_finish(u) ==
  /\ u \in 1..Len(utterances) /\ utterances[u].state = "speaking"
  /\ utterances' = [utterances EXCEPT ![u].state = "over",
                                      ![u].cbs = Append(@, "end")]
  /\ UNCHANGED <<questions, simulation, mounted,
                 currentQuestion, spoken, speechSynthesis, speaking,
                 narration, impl, hasFaceDetector, isLoading, gen, recording,
                 attemptId, nextId, starts, stops, mediaVars, detectVars,
                 pasteListeners, blurListener, proctoring, editorEvents,
                 faceCount, aggVars, lastAlert, calls, posts, summaries>>

\* the next event of utterance u is delivered; an utterance that is over
\* and has no event left is forgotten
Delivered(us, u) ==
  IF us[u].state = "over" /\ Len(us[u].cbs) = 1
  THEN SubSeq(us, 1, u - 1) \o SubSeq(us, u + 1, Len(us))
  ELSE [us EXCEPT ![u].cbs = Tail(@)]

\* utterance.onstart
utterance_onstart(u) ==
  /\ u \in 1..Len(utterances) /\ utterances[u].cbs # <<>>
  /\ Head(utterances[u].cbs) = "start"
  /\ utterances' = Delivered(utterances, u)
  /\ speaking' = TRUE
  /\ gen' = IF speaking THEN gen ELSE Rerender(pasteListeners, starts)
  /\ UNCHANGED <<questions, simulation, mounted,
                 currentQuestion, spoken, speechSynthesis,
                 narration, impl, hasFaceDetector, isLoading, recording,
                 attemptId, nextId, starts, stops, mediaVars, detectVars,
                 pasteListeners, blurListener, proctoring, editorEvents,
                 faceCount, aggVars, lastAlert, calls, posts, summaries>>

\* utterance.onend and utterance.onerror, which are the same function
utterance_onend(u) ==
  /\ u \in 1..Len(utterances) /\ utterances[u].cbs # <<>>
  /\ Head(utterances[u].cbs) \in {"end", "error"}
  /\ utterances' = Delivered(utterances, u)
  /\ speaking' = FALSE
  /\ gen' = IF speaking THEN Rerender(pasteListeners, starts) ELSE gen
  /\ UNCHANGED <<questions, simulation, mounted,
                 currentQuestion, spoken, speechSynthesis,
                 narration, impl, hasFaceDetector, isLoading, recording,
                 attemptId, nextId, starts, stops, mediaVars, detectVars,
                 pasteListeners, blurListener, proctoring, editorEvents,
                 faceCount, aggVars, lastAlert, calls, posts, summaries>>

\* ---------------------------------------------------------------------
\* Question sequencer
\* ---------------------------------------------------------------------
\* nextQuestion without the test for the last question
nextQuestion_noBoundary ==
  /\ impl = "recorder"
  /\ recording
  /\ currentQuestion < questions
  /\ currentQuestion' = currentQuestion + 1
  /\ spoken' = [kind |-> "question", q |-> currentQuestion + 1]
  /\ speakQuestion(spoken')
  /\ gen' = Rerender(pasteListeners, starts)
  /\ UNCHANGED <<questions, simulation, mounted,
                 speaking, narration, impl, hasFaceDetector, isLoading, recording,
                 attemptId, nextId, starts, stops, mediaVars, detectVars,
                 pasteListeners, blurListener, proctoring, editorEvents,
                 faceCount, aggVars, lastAlert, calls, posts, summaries>>

\* InterviewRecorder.nextQuestion(), called in a Recording session (the
\* call itself: the button's disabled attribute is not part of it)
nextQuestion ==
  /\ impl = "recorder"
  /\ recording
  /\ IF currentQuestion < questions - 1
     THEN /\ currentQuestion' = currentQuestion + 1
          /\ spoken' = [kind |-> "question", q |-> currentQuestion + 1]
          /\ gen' = Rerender(pasteListeners, starts)
     ELSE /\ spoken' = [kind |-> "closing", q |-> 0]
          /\ UNCHANGED <<currentQuestion, gen>>
  /\ speakQuestion(spoken')
  /\ UNCHANGED <<questions, simulation, mounted,
                 speaking, narration, impl, hasFaceDetector, isLoading, recording,
                 attemptId, nextId, starts, stops, mediaVars, detectVars,
                 pasteListeners, blurListener, proctoring, editorEvents,
                 faceCount, aggVars, lastAlert, calls, posts, summaries>>

\* InterviewRoom.handleNextQuestion(): an empty answer is refused, the last
\* question submits the interview
handleNextQuestion(answered) ==
  /\ impl = "room"
  /\ recording
  /\ IF ~answered
     THEN /\ lastAlert' = "answer_required"
          /\ UNCHANGED <<navVars, gen, recording, stops, mediaVars, detectVars>>
     ELSE IF currentQuestion < questions - 1
     THEN /\ currentQuestion' = currentQuestion + 1
          /\ lastAlert' = "answer_saved"
          /\ gen' = Rerender(pasteListeners, starts)
          /\ UNCHANGED <<questions, simulation, mounted,
                         spoken, speechVars, narration, recording,
                         stops, mediaVars, detectVars>>
     ELSE /\ Len(stops) < MaxStops
          /\ cleanup
          /\ stops' = Append(stops, [pc |-> "onComplete", id |-> 0])
          /\ gen' = Rerender(pasteListeners, starts)
          /\ UNCHANGED <<navVars, mediaRecorderRef, lastAlert>>
  /\ UNCHANGED <<impl, hasFaceDetector, isLoading, attemptId, nextId, starts,
                 pasteListeners, blurListener, proctoring, editorEvents,
                 faceCount, aggVars, calls, posts, summaries>>

\* InterviewRoom.handlePreviousQuestion(), its button enabled while
\* recording
handlePreviousQuestion ==
  /\ impl = "room"
  /\ recording
  /\ currentQuestion > 0
  /\ currentQuestion' = currentQuestion - 1
  /\ gen' = Rerender(pasteListeners, starts)
  /\ UNCHANGED <<questions, simulation, mounted, spoken, speechVars, narration, impl,
                 hasFaceDetector, isLoading, recording, attemptId, nextId, starts, stops, mediaVars,
                 detectVars, pasteListeners, blurListener, proctoring,
                 editorEvents, faceCount, aggVars, lastAlert, calls, posts,
                 summaries>>

\* ---------------------------------------------------------------------
\* Specifications
\*
\* The handlers are grouped by the part of the session they drive.  Spec is
\* the lifecycle (start and stop paths with every outcome of every await);
\* the other specifications add one group of event sources to a session and
\* are what the claims about that group are checked under.  SpecAll is the
\* whole program.
\* ---------------------------------------------------------------------
\* the start path, the awaits settling with an outcome in B
StartPath(B) ==
  \/ \E sim \in {0, 1}, granted \in BOOLEAN : startInterview(sim, granted)
  \/ \E i \in 1..MaxStarts, ok \in B : startInterview_getUserMedia(i, ok)
  \/ \E i \in 1..MaxStarts, ok \in B : startInterview_post(i, ok)
  \/ \E i \in 1..MaxStarts, ok \in B : startInterview_play(i, ok)
  \/ \E i \in 1..MaxStarts, ok \in BOOLEAN : startInterview_getDisplayMedia(i, ok)
  \/ \E ok \in BOOLEAN : loadModels(ok)
  \/ Room_startInterview
  \/ \E i \in 1..MaxStarts, ok \in B : Room_getUserMedia(i, ok)
  \/ \E i \in 1..MaxStarts, ok \in B : Room_getDisplayMedia(i, ok)

\* the stop path, the awaits settling with an outcome in B
StopPath(B) ==
  \/ stopInterview
  \/ \E j \in 1..MaxStops, ok \in B : stopInterview_upload(j, ok)
  \/ \E j \in 1..MaxStops, ok \in B : stopInterview_finish(j, ok)
  \/ handleSubmitInterview
  \/ \E j \in 1..MaxStops, ok \in B : handleSubmitInterview_onComplete(j, ok)

\* blur and paste events of the window
Listeners == onBlur \/ onPaste

\* recorder callbacks, the chunk uploads settling with an outcome in B
Media(B) ==
  \E r \in 1..(2 * MaxStarts), nonempty \in BOOLEAN, ok \in B :
    ondataavailable(r, nonempty, ok)

\* the detection loop
Detection ==
  \/ \E t \in 1..MaxStarts : tick(t)
  \/ \E t \in 1..MaxStarts, skin \in BOOLEAN : tickFallback(t, skin)
  \/ \E id \in AttemptIds, count \in 0..MaxFaces : detect(id, count)

\* errors inside a tick of the detection loop
TickErrors ==
  \/ \E t \in 1..MaxStarts : tick_catch(t)
  \/ \E id \in AttemptIds : detect_catch(id)

\* navigation between the questions
Navigation ==
  \/ nextQuestion
  \/ \E answered \in BOOLEAN : handleNextQuestion(answered)
  \/ handlePreviousQuestion

\* the narration timeouts, the synthesizer and the utterances' callbacks
Speech ==
  \/ \E i \in 1..MaxStarts : narrate_welcome(i)
  \/ \E i \in 1..MaxStarts : narrate_first(i)
  \/ \E u \in 1..MaxUtterances : utterance_begin(u)
  \/ \E u \in 1..MaxUtterances : utterance_finish(u)
  \/ \E u \in 1..MaxUtterances : utterance_onstart(u)
  \/ \E u \in 1..MaxUtterances : utterance_onend(u)

\* no invocation of a handler is awaiting anything
Quiet ==
  /\ \A i \in 1..Len(starts) : ~InFlight(starts[i].pc)
  /\ \A j \in 1..Len(stops) : stops[j].pc \notin {"upload", "finish", "onComplete"}

\* a user who clicks Start or Stop only while no handler is in flight
Session(B) ==
  \/ Quiet /\ \E sim \in {0, 1}, granted \in BOOLEAN : startInterview(sim, granted)
  \/ Quiet /\ Room_startInterview
  \/ Quiet /\ stopInterview
  \/ Quiet /\ handleSubmitInterview
  \/ \E i \in 1..MaxStarts, ok \in B : startInterview_getUserMedia(i, ok)
  \/ \E i \in 1..MaxStarts, ok \in B : startInterview_post(i, ok)
  \/ \E i \in 1..MaxStarts, ok \in B : startInterview_play(i, ok)
  \/ \E i \in 1..MaxStarts, ok \in BOOLEAN : startInterview_getDisplayMedia(i, ok)
  \/ \E ok \in BOOLEAN : loadModels(ok)
  \/ \E i \in 1..MaxStarts, ok \in B : Room_getUserMedia(i, ok)
  \/ \E i \in 1..MaxStarts, ok \in B : Room_getDisplayMedia(i, ok)
  \/ \E j \in 1..MaxStops, ok \in B : stopInterview_upload(j, ok)
  \/ \E j \in 1..MaxStops, ok \in B : stopInterview_finish(j, ok)
  \/ \E j \in 1..MaxStops, ok \in B : handleSubmitInterview_onComplete(j, ok)

\* the lifecycle with re-entrant clicks
Next == StartPath(BOOLEAN) \/ StopPath(BOOLEAN)

Spec == Init /\ [][Next]_vars

\* the start path alone
SpecStart == Init /\ [][StartPath(BOOLEAN)]_vars

\* sessions with the window's blur and paste events
SpecListen == Init /\ [][Session(BOOLEAN) \/ Listeners]_vars

\* sessions with the detection loop
SpecDetect == Init /\ [][Session(BOOLEAN) \/ Detection]_vars

\* sessions with the recorder callbacks
SpecMedia == Init /\ [][Session(BOOLEAN) \/ Media({TRUE})]_vars

\* the one start of a session in which every await succeeds
OneStart ==
  \/ starts = <<>> /\ startInterview(1, TRUE)
  \/ starts = <<>> /\ Room_startInterview
  \/ startInterview_getUserMedia(1, TRUE)
  \/ startInterview_post(1, TRUE)
  \/ startInterview_play(1, TRUE)
  \/ startInterview_getDisplayMedia(1, TRUE)
  \/ loadModels(TRUE)
  \/ Room_getUserMedia(1, TRUE)
  \/ Room_getDisplayMedia(1, TRUE)

\* sessions with navigation between the questions; the utterances that
\* nextQuestion cancels get their error callback
SpecNav ==
  Init /\ [][\/ Session(BOOLEAN) \/ Navigation
             \/ \E u \in 1..MaxUtterances : utterance_onend(u)]_vars

\* one recording session and its chunk uploads, which may fail
SpecUpload == Init /\ [][OneStart \/ StopPath({TRUE}) \/ Media(BOOLEAN)]_vars

\* one recording session under a clock that starts with it: the violation
\* aggregator
SpecAgg ==
  Init /\ [][\/ OneStart \/ Listeners \/ Detection
             \/ (recording /\ now <= DedupWindow /\ Advance)]_vars

\* one recording session of InterviewRoom under the clock: its detection
\* loop feeding addProctoringFlag
SpecFlags ==
  Init /\ [][\/ loadModels(TRUE)
             \/ starts = <<>> /\ Room_startInterview
             \/ Room_getUserMedia(1, TRUE)
             \/ Room_getDisplayMedia(1, TRUE)
             \/ \E t \in 1..MaxStarts : impl = "room" /\ tick(t)
             \/ \E count \in 0..MaxFaces : impl = "room" /\ detect(0, count)
             \/ (impl = "room" /\ recording /\ Advance)]_vars

\* one session and its detection loop, whose ticks may throw
SpecTick ==
  Init /\ [][OneStart \/ StopPath({TRUE}) \/ Detection \/ TickErrors]_vars

\* one recording session of InterviewRoom with navigation between the
\* questions and its detection loop
SpecIndex ==
  Init /\ [][\/ loadModels(TRUE)
             \/ starts = <<>> /\ Room_startInterview
             \/ Room_getUserMedia(1, TRUE)
             \/ Room_getDisplayMedia(1, TRUE)
             \/ \E answered \in BOOLEAN : handleNextQuestion(answered)
             \/ handlePreviousQuestion
             \/ \E t \in 1..MaxStarts : impl = "room" /\ tick(t)
             \/ \E count \in 0..MaxFaces : impl = "room" /\ detect(0, count)]_vars

\* one session of InterviewRecorder under a clock: the violations of the
\* listeners and of the pixel heuristic, and the banner's timeouts, which
\* fire when they are due
Banner ==
  \/ \E d \in 1..(MaxSteps + 5) : hideWarning(d * Step)
  \/ (\A d \in warningTimers : d > now) /\ Advance

SpecBanner ==
  Init /\ [][\/ OneStart \/ Listeners
             \/ \E t \in 1..MaxStarts, skin \in BOOLEAN : tickFallback(t, skin)
             \/ Banner]_vars

\* InterviewRecorder from its mount: the effect on [simulation], then one
\* session with its questions
SpecQuestions ==
  InitMount /\ [][\/ questionsEffect
                  \/ simulation.parsed /\ (OneStart \/ nextQuestion)
                  \/ \E u \in 1..MaxUtterances : utterance_onend(u)]_vars

\* one session with its recorders and detection loop, and the unmount of
\* the component while it is Recording
SpecUnmount ==
  Init /\ [][\/ mounted /\ OneStart
             \/ recording /\ unmount
             \/ Detection \/ Media({TRUE})]_vars

\* the one Stop & Submit of a session of InterviewRecorder, in which every
\* await succeeds
OneStop ==
  \/ Quiet /\ stopInterview
  \/ stopInterview_upload(1, TRUE)
  \/ stopInterview_finish(1, TRUE)

\* one session of InterviewRecorder with its narration
SpecSpeech ==
  Init /\ [][OneStart \/ OneStop \/ nextQuestion \/ Speech]_vars

\* one session and its detection loop, in InterviewRoom with the models
\* loaded or not
SpecNoDetector ==
  Init /\ [][\/ OneStart \/ loadModels(FALSE) \/ StopPath({TRUE})
             \/ Detection \/ TickErrors]_vars

NextAll ==
  \/ unmount
  \/ Speech
  \/ Next \/ Listeners \/ Media(BOOLEAN) \/ Detection \/ TickErrors
  \/ Navigation \/ Advance \/ Banner

SpecAll == Init /\ [][NextAll]_vars

\* ---------------------------------------------------------------------
\* Properties
\* ---------------------------------------------------------------------

\* C1: the violation log never holds two events of the same type whose
\* timestamps are less than 5000 ms apart (only the first of a burst of
\* same-type calls is logged).
C1_NoSameTypeWithinWindow ==
  \A i, j \in 1..Len(violations) :
    (i < j /\ violations[i].type = violations[j].type)
      => violations[j].ts - violations[i].ts >= DedupWindow

\* C2: however often stopInterview is invoked on a session, the final
\* editor_events summary is uploaded at most once and finish is posted at
\* most once for its attempt.
C2_StopTwiceSubmitsOnce ==
  \A id \in AttemptIds :
    posts[id]["editor_events"] <= 1 /\ posts[id]["finish"] <= 1

\* C3: a start whose screen capture was denied still completes into
\* Recording, its camera recorder records until the session is stopped, and
\* no screen chunk is uploaded for its attempt.
C3_ScreenDeniedStillRecords ==
  \A i \in 1..Len(starts) :
    starts[i].screen = "denied" =>
      /\ starts[i].pc = "done"
      /\ posts[starts[i].id]["screen"] = 0
      /\ (\A j \in 1..Len(stops) : stops[j].id # starts[i].id) =>
           \E r \in 1..Len(recorders) :
             /\ recorders[r].kind = "video"
             /\ recorders[r].id = starts[i].id
             /\ recorders[r].state = "recording"

\* C4: a step in which the pre-prompt is declined calls no device API,
\* creates no attempt and leaves the session Idle: recording stays false,
\* attemptId and every media object stay as they were.
C4_DeclineTouchesNothing ==
  [][(lastAlert # "permission_required" /\ lastAlert' = "permission_required")
       => /\ calls' = calls
          /\ nextId' = nextId
          /\ attemptId' = attemptId
          /\ ~recording /\ ~recording'
          /\ starts' = starts
          /\ UNCHANGED <<mediaVars, detectVars, pasteListeners>>]_vars

\* C4 witness: the pre-prompt was declined on a fresh component: Idle, no
\* device API called, no attempt.
C4_Witness ==
  /\ lastAlert = "permission_required"
  /\ ~recording /\ attemptId = 0
  /\ calls.getUserMedia = 0 /\ calls.getDisplayMedia = 0 /\ calls.start = 0

\* C5: once a tick has set it, proctoring.multiple_faces stays true.
C5_MultipleFacesSticky ==
  [][proctoring.multiple_faces => proctoring.multiple_faces']_vars

\* C6: when a stopInterview invocation has completed (summary upload
\* awaited, then finish), exactly one editor_events chunk and exactly one
\* finish have been posted for its attempt.
C6_OneSummaryThenOneFinish ==
  \A j \in 1..Len(stops) :
    (IsRecorder /\ stops[j].pc = "done") =>
      /\ posts[stops[j].id]["editor_events"] = 1
      /\ posts[stops[j].id]["finish"] = 1

\* C7: the step in which the final upload or the finish call of a stop
\* fails notifies the user of the submission failure and leaves the
\* session not Recording.
C7_FailedSubmitNotifies ==
  [][\A j \in 1..Len(stops) :
       (stops[j].pc \notin {"thrown", "caught"}
          /\ stops'[j].pc \in {"thrown", "caught"})
         => (lastAlert' = "submit_failed" /\ ~recording')]_vars

\* C8: a start that failed after the pre-prompt left nothing behind: the
\* camera stream it acquired is released and no recorder of its attempt
\* records.
C8_FailedStartLeavesNothing ==
  \A i \in 1..Len(starts) :
    starts[i].pc = "failed" =>
      /\ starts[i].cam # 0 => ~streams[starts[i].cam].live
      /\ starts[i].id # 0 =>
           \A r \in 1..Len(recorders) :
             recorders[r].id = starts[i].id => recorders[r].state # "recording"

\* C9: the step that invokes stop leaves no recorder recording and no
\* detection timer running.
C9_StopCancelsProducers ==
  [][Len(stops') > Len(stops)
       => /\ \A r \in 1..Len(recorders') : recorders'[r].state # "recording"
          /\ \A t \in 1..Len(timers') : ~timers'[t].active]_vars

\* C10: before the first start the blur and paste counters and the
\* violation log are untouched, a paste listener is attached only while
\* the session is Recording, and never more than one.
C10_ListenersOnlyWhileRecording ==
  /\ starts = <<>> =>
       (proctoring.tab_blur_count = 0 /\ editorEvents = 0 /\ violations = <<>>)
  /\ ~recording => pasteListeners = {}
  /\ Cardinality(pasteListeners) <= 1

\* C11: a step in which a chunk upload fails leaves the recorder's state,
\* the session state and every other recorder as they were, raises nothing
\* to the user, and posts the chunk exactly once (no retry).
C11_FailedUploadSwallowed ==
  [][\A r \in 1..Len(recorders) :
       recorders'[r].dropped > recorders[r].dropped
         => /\ recorders'[r].state = recorders[r].state
            /\ posts' = Post(posts, recorders[r].id, recorders[r].kind)
            /\ \A r2 \in 1..Len(recorders) : r2 # r => recorders'[r2] = recorders[r2]
            /\ UNCHANGED <<recording, attemptId, lastAlert, starts, stops,
                           streams, mediaRecorderRef, screenRecorderRef,
                           detectVars>>]_vars

\* C11 witness: a recorder lost a chunk, a second chunk of the same
\* recorder was posted, and it still records in a Recording session.
C11_Witness ==
  /\ recording
  /\ \E r \in 1..Len(recorders) :
       /\ recorders[r].dropped = 1
       /\ recorders[r].state = "recording"
       /\ posts[recorders[r].id][recorders[r].kind] = 2

\* C12: the step that invokes stop leaves every device track of every
\* stream the session acquired stopped.
C12_TeardownReleasesTracks ==
  [][Len(stops') > Len(stops)
       => \A k \in 1..Len(streams') : ~streams'[k].live]_vars

\* C13: in InterviewRecorder a call of next at the last question narrates
\* the closing message and leaves the cursor where it is; a call before the
\* last question moves the cursor forward by exactly one and narrates the
\* question it moved to.
C13_NextStepsOrCloses ==
  [][(impl = "recorder"
        /\ (spoken' # spoken \/ currentQuestion' # currentQuestion))
       => IF currentQuestion < questions - 1
          THEN /\ currentQuestion' = currentQuestion + 1
               /\ spoken' = [kind |-> "question", q |-> currentQuestion']
          ELSE /\ currentQuestion' = currentQuestion
               /\ spoken' = [kind |-> "closing", q |-> 0]]_vars

\* C13 witness: the cursor was moved to the last of five questions by
\* calls of next, and a further call narrated the closing message.
C13_Witness ==
  /\ impl = "recorder" /\ questions = 5
  /\ currentQuestion = questions - 1
  /\ spoken.kind = "closing"

\* C14: the cursor always lies within the question list, and a step
\* between two Recording states never lowers it.
C14_CursorInRangeAndMonotone ==
  /\ [](questions > 0 => currentQuestion \in 0..(questions - 1))
  /\ [][(recording /\ recording') => currentQuestion' >= currentQuestion]_vars

\* C15: in InterviewRoom's log, a NO_FACE entry has a notification exactly
\* when the number of NO_FACE entries before it is a multiple of three
\* (entries 1, 4, 7, ...); an entry of any other type always has one; and
\* there is no notification without a log entry.
C15_EveryThirdNoFaceNotifies ==
  impl = "room" =>
    /\ \A i \in 1..Len(violations) :
         (\E k \in 1..Len(toasts) :
            toasts[k] = [type |-> violations[i].type, ts |-> violations[i].ts])
         <=> \/ violations[i].type # "NO_FACE"
             \/ Len(SelectSeq(SubSeq(violations, 1, i - 1), IsNoFace)) % 3 = 0
    /\ \A k \in 1..Len(toasts) :
         \E i \in 1..Len(violations) :
           toasts[k] = [type |-> violations[i].type, ts |-> violations[i].ts]

\* C15 witness: four NO_FACE entries were logged, and only the first and
\* the fourth were notified.
C15_Witness ==
  /\ impl = "room"
  /\ Len(SelectSeq(violations, IsNoFace)) = 4
  /\ Len(SelectSeq(toasts, IsNoFace)) = 2

\* C16: in InterviewRecorder a detector result of zero or of several faces
\* both appends one violation and posts one face-flag for the attempt, and
\* every NO_FACE or MULTIPLE_FACES violation, whichever variant of the
\* detector raised it, comes with a face-flag post.
C16_AbnormalTickLogsAndFlags ==
  [][IsRecorder =>
       /\ \A id \in pending \ pending' :
            proctoring'.face_count # 1
              => /\ Len(violations') = Len(violations) + 1
                 /\ posts'[id]["face-flag"] = posts[id]["face-flag"] + 1
       /\ (Len(violations') > Len(violations)
             /\ violations'[Len(violations')].type \in {"NO_FACE", "MULTIPLE_FACES"})
            => \E id \in AttemptIds :
                 posts'[id]["face-flag"] = posts[id]["face-flag"] + 1]_vars

\* C17: a step in which start reports the missing simulation changes
\* nothing but the message shown: no pre-prompt outcome, no invocation left
\* running, no device API or backend call, session still Idle.
C17_NoSimulationTouchesNothing ==
  [][(lastAlert # "no_simulation" /\ lastAlert' = "no_simulation")
       => /\ ~recording /\ ~recording'
          /\ UNCHANGED <<starts, stops, calls, posts, nextId, attemptId, gen,
                         mediaVars, detectVars, pasteListeners, navVars,
                         proctoring, editorEvents, violations>>]_vars

\* C17 witness: start was called without a simulation on a fresh
\* component: the message is shown, nothing was started or called.
C17_Witness ==
  /\ lastAlert = "no_simulation"
  /\ starts = <<>> /\ ~recording
  /\ calls = [getUserMedia |-> 0, getDisplayMedia |-> 0, start |-> 0]

\* C18: a start invoked after a stop has ended (submitted or failed)
\* begins from fresh session state: blur and paste counters zero,
\* multiple-faces flag false, empty violation log, cursor 0.
C18_StartAfterEndIsFresh ==
  [][(Len(starts') > Len(starts)
        /\ \E j \in 1..Len(stops) : stops[j].pc \in {"done", "thrown", "caught"})
       => /\ proctoring.tab_blur_count = 0
          /\ editorEvents = 0
          /\ ~proctoring.multiple_faces
          /\ violations = <<>>
          /\ currentQuestion = 0]_vars

\* C19: every event InterviewRoom appends to the log carries as
\* questionIndex the value the cursor has in the step that records it.
C19_QuestionIndexIsCurrent ==
  [][(impl = "room" /\ Len(violations') > Len(violations))
       => violations'[Len(violations')].q = currentQuestion]_vars

\* C20: a step in which a tick's error is caught leaves the interval
\* running and the session as it was, and an interval that has caught an
\* error and has no tick in flight can fire its next tick.
C20_TickErrorKeepsLoop ==
  /\ [][\A t \in 1..Len(timers) :
          timers'[t].errors > timers[t].errors
            => /\ timers'[t].active = timers[t].active
               /\ UNCHANGED <<faceDetectIntervalRef, recording, recorders,
                              proctoring, violations, posts, lastAlert>>]_vars
  /\ [](\A t \in 1..Len(timers) :
          (timers[t].active /\ timers[t].errors > 0 /\ timers[t].id \notin pending)
            => ENABLED (tick(t) \/ tickFallback(t, TRUE)))

\* C20 witness: in a Recording session an interval has caught an error, is
\* still running, and a tick of it is in flight.
C20_Witness ==
  /\ recording
  /\ \E t \in 1..Len(timers) :
       /\ timers[t].errors = 1
       /\ timers[t].active
       /\ faceDetectIntervalRef = t
       /\ timers[t].id \in pending

\* C21: without a presence detector (no FaceDetector, or the face-api
\* models did not load) a start that completes still puts the session in
\* Recording; no tick awaits a detector or posts a face flag, and only
\* InterviewRecorder has an interval at all (its pixel heuristic); a stop
\* that is awaiting a post can go on, and when it completes the session
\* has left Recording with no interval running.
C21_NoDetectorStillRecords ==
  /\ [](~hasFaceDetector =>
          /\ pending = {}
          /\ \A id \in AttemptIds : posts[id]["face-flag"] = 0
          /\ flagPosts = 0
          /\ (impl # "recorder" => timers = <<>>))
  /\ [][~hasFaceDetector =>
          /\ \A i \in 1..Len(starts) :
               (starts[i].pc # "done" /\ starts'[i].pc = "done") => recording'
          /\ \A j \in 1..Len(stops) :
               (stops[j].pc # "done" /\ stops'[j].pc = "done")
                 => /\ ~recording'
                    /\ \A t \in 1..Len(timers') : ~timers'[t].active]_vars
  /\ [](\A j \in 1..Len(stops) :
          /\ (~hasFaceDetector /\ stops[j].pc = "upload")
               => ENABLED stopInterview_upload(j, TRUE)
          /\ (~hasFaceDetector /\ stops[j].pc = "finish")
               => ENABLED stopInterview_finish(j, TRUE)
          /\ (~hasFaceDetector /\ stops[j].pc = "onComplete")
               => ENABLED handleSubmitInterview_onComplete(j, TRUE))

\* C21 witness: a session of InterviewRecorder without FaceDetector whose
\* pixel heuristic has logged a violation has been stopped and submitted.
C21_Witness ==
  /\ impl = "recorder" /\ ~hasFaceDetector
  /\ Len(violations) > 0
  /\ Len(stops) = 1 /\ stops[1].pc = "done"
  /\ ~recording

\* C22: while less than 5000 ms have passed since the latest violation of
\* InterviewRecorder the warning banner is shown, and a banner that is
\* shown belongs to a violation at most 5000 ms old.
C22_BannerCoversLatestViolation ==
  (impl = "recorder" /\ violations # <<>>) =>
     LET t == violations[Len(violations)].ts IN
       /\ now < t + WarningMs => showWarning
       /\ showWarning => now <= t + WarningMs

\* C23: at most one utterance is queued or being spoken at any time, and
\* it is the one speakQuestion created last: every earlier one has been
\* cancelled or has ended; in a browser without speechSynthesis no
\* utterance is ever created and the indicator stays off.
C23_OneUtteranceAtATime ==
  /\ \A u \in 1..Len(utterances) :
       utterances[u].state # "over" => u = Len(utterances)
  /\ speechSynthesis = "absent" => (utterances = <<>> /\ ~speaking)

\* C23 witness: an utterance whose start had been announced (the indicator
\* is on) was cancelled by the next speakQuestion, whose utterance is queued.
C23_Witness ==
  /\ Len(utterances) = 2
  /\ speaking
  /\ utterances[1].state = "over" /\ utterances[1].cbs = <<"error">>
  /\ utterances[2].state = "queued"

\* C24: once the effect has run, the question list of InterviewRecorder is
\* the simulation's structured questions when it has any, else at least
\* five entries made from the prompt, and it is never empty for a
\* simulation that has a prompt or structured questions.
C24_QuestionListFromSimulation ==
  (impl = "recorder" /\ simulation.parsed) =>
     /\ simulation.structured > 0 => questions = simulation.structured
     /\ (simulation.structured = 0 /\ simulation.prompt >= 0)
          => questions >= MinQuestions
     /\ (simulation.structured > 0 \/ simulation.prompt >= 0) => questions > 0

\* C25: in InterviewRoom two logged events of one type are at least
\* 5000 ms apart, and a tick that sees no face leaves the log as it is
\* only if a NO_FACE event was logged less than 5000 ms earlier, else it
\* logs one with the current time: what was suppressed plays no part.
C25_WindowAnchoredToLoggedEvent ==
  /\ [](impl = "room" =>
          \A i, j \in 1..Len(violations) :
            (i < j /\ violations[i].type = violations[j].type)
              => violations[j].ts - violations[i].ts >= DedupWindow)
  /\ [][(impl = "room" /\ pending' # pending /\ pending' \subseteq pending
          /\ faceCount' = 0)
        => IF \E i \in 1..Len(violations) :
                /\ violations[i].type = "NO_FACE"
                /\ now - violations[i].ts < DedupWindow
           THEN violations' = violations
           ELSE /\ Len(violations') = Len(violations) + 1
                /\ violations'[Len(violations')].type = "NO_FACE"
                /\ violations'[Len(violations')].ts = now]_vars

\* C25 witness: two NO_FACE events were logged exactly 5000 ms apart with
\* a MULTIPLE_FACES event logged between them, and a later tick has since
\* seen no face within the window of the second.
C25_Witness ==
  /\ impl = "room"
  /\ \E i, j, k \in 1..Len(violations) :
       /\ i < j /\ j < k
       /\ violations[i].type = "NO_FACE" /\ violations[k].type = "NO_FACE"
       /\ violations[j].type = "MULTIPLE_FACES"
       /\ violations[k].ts - violations[i].ts = DedupWindow
       /\ k = Len(violations)
       /\ now > violations[k].ts /\ now < violations[k].ts + DedupWindow
  /\ faceCount = 0 /\ pending = {}

\* C26: once stopInterview has been invoked on a session of
\* InterviewRecorder, no step appends a violation, changes a field of the
\* proctoring state or issues a face-flag post.
C26_NoDetectionAfterStop ==
  [][(IsRecorder /\ stops # <<>>)
       => /\ violations' = violations
          /\ proctoring' = proctoring
          /\ \A id \in AttemptIds :
               posts'[id]["face-flag"] = posts[id]["face-flag"]]_vars

\* C27: a narration timeout of startInterview that speaks an utterance
\* fires in a Recording session on which stopInterview has not been
\* invoked, and an utterance that is a question is the question the cursor
\* is on.
C27_NarrationOnlyWhileRecording ==
  [][Len(utterances') > Len(utterances)
       => /\ narration' # narration => (recording /\ stops = <<>>)
          /\ LET text == utterances'[Len(utterances')].text IN
               text.kind = "question" => text.q = currentQuestion']_vars

\* C28: when every callback that is due has been delivered, the speaking
\* indicator is on exactly if an utterance is being spoken.
C28_IndicatorFollowsUtterance ==
  (\A u \in 1..Len(utterances) : utterances[u].cbs = <<>>)
    => (speaking <=> \E u \in 1..Len(utterances) :
                       utterances[u].state = "speaking")

\* C29: while a session of InterviewRecorder is Recording, attemptId is an
\* id that a start call returned, and the running recorders and detection
\* interval that the refs hold, whose chunks and face flags are the
\* session's, address that attemptId, which is what stopInterview posts
\* the summary and finish to; no post is ever addressed to a null attemptId.
C29_OneAttemptIdPerSession ==
  IsRecorder =>
    /\ \A k \in Kinds : posts[0][k] = 0
    /\ \A j \in 1..Len(stops) : stops[j].id # 0
    /\ recording =>
         /\ attemptId \in 1..(nextId - 1)
         /\ \A r \in {mediaRecorderRef, screenRecorderRef} \ {0} :
              recorders[r].state = "recording" => recorders[r].id = attemptId
         /\ (faceDetectIntervalRef # 0 /\ timers[faceDetectIntervalRef].active)
              => timers[faceDetectIntervalRef].id = attemptId

\* C30: once the component is unmounted, no detection interval is
\* running, no recorder is recording and no camera or screen track is live.
C30_UnmountReleasesEverything ==
  ~mounted =>
    /\ \A t \in 1..Len(timers) : ~timers[t].active
    /\ \A r \in 1..Len(recorders) : recorders[r].state = "inactive"
    /\ \A k \in 1..Len(streams) : ~streams[k].live

====
